---- MODULE Spec2Model ----
(***************************************************************************)
(* Model of the Shomee Spices API (src/main.py): the six routes of the     *)
(* FastAPI application, the request-body models ProductIn / LeadIn, and    *)
(* the document store the handlers reach through the database module.     *)
(*                                                                         *)
(* Python values are tagged records so that a text, an int, a float, a     *)
(* boolean, a list, None and an absent field stay distinct.  A text is the *)
(* sequence of its characters, [t |-> "str", v |-> <<"T", "e", "a">>]; an  *)
(* int is its sign and decimal digits; a float is an IEEE 754 double given *)
(* by its sign, the binary digits of its significand and a power of two.   *)
(* A request body is the dict json.loads made of it.                       *)
(***************************************************************************)
EXTENDS Integers, Sequences, FiniteSets, TLC

VARIABLES
    db,      \* the document store: [product, lead: Seq(doc), next: id counter]
    env,     \* the process environment and the state of the database module
    pc,      \* pc[r]: "idle", "pending" (accepted, handler not yet run), "done"
    req,     \* req[r]: the request in slot r
    resp,    \* resp[r]: the response of slot r
    calls    \* log of the create_document calls made by the handlers

vars == <<db, env, pc, req, resp, calls>>

----------------------------------------------------------------------------
(* Bounds of the model *)

MaxReqs == 2          \* request slots (requests in one behaviour)
MaxDocs == 2          \* length of the varied prior store contents
MaxColl == 11         \* most collection names the store may list

(* Program constants *)

DefaultLimit == 50    \* list_products(limit: int = 50)
MaxShown == 10        \* collections[:10]
TruncLen == 50        \* str(e)[:50]
Created == 201        \* status_code=201
Ok == 200
Unprocessable == 422  \* FastAPI's answer to a request body failing its model
ServerError == 500    \* FastAPI's answer to an exception escaping a handler
MantissaBits == 53    \* binary digits of the significand of a float
MaxExponent == 1023   \* the largest float is below 2^(MaxExponent + 1)
FractionBits == 1074  \* the smallest positive float is 2^(-FractionBits)

Reqs == 1..MaxReqs

----------------------------------------------------------------------------
(* Values *)

Str(s) == [t |-> "str", v |-> s]
Bool(b) == [t |-> "bool", v |-> b]
List(s) == [t |-> "list", v |-> s]
Null == [t |-> "null"]
Missing == [t |-> "missing"]

Min(a, b) == IF a < b THEN a ELSE b
Max(a, b) == IF a > b THEN a ELSE b
Take(s, n) == SubSeq(s, 1, Min(Max(n, 0), Len(s)))
Least(S) == CHOOSE x \in S : \A y \in S : x <= y
Greatest(S) == CHOOSE x \in S : \A y \in S : y <= x
Zeros(n) == [i \in 1..n |-> 0]
IsZero(ds) == \A i \in 1..Len(ds) : ds[i] = 0

\* Python truthiness of an optional text: None and "" are false.
Truthy(x) == x.t = "str" /\ x.v # <<>>

----------------------------------------------------------------------------
(* Integers.  A Python int is a sign s and its decimal digits d, without   *)
(* leading zeros (none at all for 0).                                      *)

PyInt(sign, digits) ==
    LET nz == {i \in 1..Len(digits) : digits[i] # 0} IN
    IF nz = {} THEN [t |-> "int", s |-> 1, d |-> <<>>]
    ELSE [t |-> "int", s |-> sign, d |-> SubSeq(digits, Least(nz), Len(digits))]

RECURSIVE NatDigits(_)
NatDigits(n) == IF n < 10 THEN <<n>> ELSE Append(NatDigits(n \div 10), n % 10)

\* The int a (small) integer of the model is, and back.
Integer(n) == PyInt(IF n < 0 THEN -1 ELSE 1, NatDigits(IF n < 0 THEN -n ELSE n))

IntValue(x) ==
    LET val[i \in 0..Len(x.d)] == IF i = 0 THEN 0 ELSE 10 * val[i - 1] + x.d[i]
    IN  x.s * val[Len(x.d)]

----------------------------------------------------------------------------
(* Floats.  A Python float is an IEEE 754 double: sign s, the binary       *)
(* digits b of its significand without leading or trailing zeros (none for *)
(* 0.0 and -0.0) and e, the power of two of the last digit; or infinity;   *)
(* or not-a-number.  3.0 is b = <<1, 1>>, e = 0; 0.5 is b = <<1>>, e = -1. *)

Zero(sign) == [t |-> "float", k |-> "finite", s |-> sign, b |-> <<>>, e |-> 0]
Infinity(sign) == [t |-> "float", k |-> "inf", s |-> sign, b |-> <<>>, e |-> 0]
NaN == [t |-> "float", k |-> "nan", s |-> 1, b |-> <<>>, e |-> 0]

\* The double sign * bits * 2^exp for a binary numeral bits that fits the
\* significand; infinity when it lies beyond the largest double.
Binary(sign, bits, exp) ==
    LET ones == {i \in 1..Len(bits) : bits[i] = 1} IN
    IF ones = {} THEN Zero(sign)
    ELSE IF exp + Len(bits) - 1 > MaxExponent THEN Infinity(sign)
    ELSE [t |-> "float", k |-> "finite", s |-> sign,
          b |-> SubSeq(bits, Least(ones), Greatest(ones)),
          e |-> exp + (Len(bits) - Greatest(ones))]

\* Half of a decimal numeral (rounded down), and twice a decimal fraction
\* (without its carry); the numeral keeps its length.
Halve(ds) ==
    [i \in 1..Len(ds) |-> ((IF i > 1 THEN ds[i - 1] % 2 ELSE 0) * 10 + ds[i]) \div 2]

Double(ds) ==
    [i \in 1..Len(ds) |->
        ((2 * ds[i]) % 10) + (IF i < Len(ds) /\ ds[i + 1] >= 5 THEN 1 ELSE 0)]

\* k halvings of st.ds, each putting the remainder in front of st.bits: the
\* low k binary digits of an integer.  Nothing is left to do at zero.
RECURSIVE HalveTimes(_, _)
HalveTimes(k, st) ==
    IF k = 0 THEN st
    ELSE IF k = 1
    THEN [ds |-> Halve(st.ds),
          bits |-> <<IF st.ds # <<>> THEN st.ds[Len(st.ds)] % 2 ELSE 0>> \o st.bits]
    ELSE LET mid == HalveTimes(k \div 2, st)
         IN  IF IsZero(mid.ds) THEN mid ELSE HalveTimes(k - k \div 2, mid)

\* k doublings of the fraction st.ds, each appending the carry to st.bits:
\* the first k binary digits of a fraction.  Nothing is left to do at zero.
RECURSIVE DoubleTimes(_, _)
DoubleTimes(k, st) ==
    IF k = 0 THEN st
    ELSE IF k = 1
    THEN [ds |-> Double(st.ds),
          bits |-> Append(st.bits, IF st.ds # <<>> /\ st.ds[1] >= 5 THEN 1 ELSE 0)]
    ELSE LET mid == DoubleTimes(k \div 2, st)
         IN  IF IsZero(mid.ds) THEN mid ELSE DoubleTimes(k - k \div 2, mid)

\* A binary numeral without its leading zeros.
Significant(bits) ==
    LET ones == {i \in 1..Len(bits) : bits[i] = 1}
    IN  IF ones = {} THEN <<>> ELSE SubSeq(bits, Least(ones), Len(bits))

\* The binary numeral of a decimal integer (10^n < 2^(4n)).
IntegerBits(ds) == Significant(HalveTimes(4 * Len(ds), [ds |-> ds, bits |-> <<>>]).bits)

\* A binary numeral plus one.
Increment(bits) ==
    LET zs == {i \in 1..Len(bits) : bits[i] = 0} IN
    IF zs = {} THEN <<1>> \o Zeros(Len(bits))
    ELSE [i \in 1..Len(bits) |->
            IF i < Greatest(zs) THEN bits[i] ELSE IF i = Greatest(zs) THEN 1 ELSE 0]

\* The double nearest to a binary numeral, ties to the even significand, and
\* whether it is that numeral exactly.  B holds the binary digits, P of them
\* before the point; rest: digits other than 0 follow B.  The digits f..L of
\* B are kept; the digit after L and what follows it decide the rounding.
RoundAt(sign, P, B, rest, f, L) ==
    LET bit(j) == IF j <= Len(B) THEN B[j] ELSE 0
        kept == [j \in 1..(L - f + 1) |-> bit(f + j - 1)]
        sticky == rest \/ \E j \in (L + 2)..Len(B) : B[j] = 1
        half == bit(L + 1) = 1
        up == half /\ (sticky \/ (L >= f /\ bit(L) = 1))
    IN  [value |-> Binary(sign, IF up THEN Increment(kept) ELSE kept, P - L),
         exact |-> ~half /\ ~sticky]

\* The digits kept are 53 from the first 1 of B, but none below 2^-1074.
Round(sign, P, B, rest) ==
    LET ones == {j \in 1..Len(B) : B[j] = 1}
        f == Least(ones)
    IN  IF ones = {} THEN [value |-> Zero(sign), exact |-> ~rest]
        ELSE RoundAt(sign, P, B, rest, f, Min(f + MantissaBits - 1, P + FractionBits))

\* How many binary digits of the fraction the rounding needs, after an
\* integer part of P binary digits: up to one past the 53rd; with no integer
\* part, up to 54 past the first 1 (10^-n > 2^(-4n)), at most 1075.
FractionSteps(P, frac) ==
    LET nz == {i \in 1..Len(frac) : frac[i] # 0}
        zeroDigits == IF nz = {} THEN Len(frac) ELSE Least(nz) - 1
    IN  IF P > 0 THEN Max(0, MantissaBits + 1 - P)
        ELSE Min(FractionBits + 1, 4 * (zeroDigits + 1) + MantissaBits)

Join(sign, high, low) == Round(sign, Len(high), high \o low.bits, ~IsZero(low.ds))

WithFraction(sign, high, frac) ==
    Join(sign, high,
         DoubleTimes(FractionSteps(Len(high), frac), [ds |-> frac, bits |-> <<>>]))

\* The double nearest to the decimal int.frac.
Nearest(sign, int, frac) == WithFraction(sign, IntegerBits(int), frac)

\* The double nearest to sign * 0.m * 10^magnitude, for decimal digits m
\* without leading or trailing zeros.  From 10^309 on a decimal is beyond
\* the largest double; below 10^-324 it is nearer to zero than to the
\* smallest double.
Scaled(sign, m, magnitude) ==
    IF magnitude > 309 THEN [value |-> Infinity(sign), exact |-> FALSE]
    ELSE IF magnitude < -324 THEN [value |-> Zero(sign), exact |-> FALSE]
    ELSE Nearest(sign,
                 IF magnitude >= Len(m) THEN m \o Zeros(magnitude - Len(m))
                 ELSE IF magnitude > 0 THEN SubSeq(m, 1, magnitude)
                 ELSE <<>>,
                 IF magnitude >= Len(m) THEN <<>>
                 ELSE IF magnitude > 0 THEN SubSeq(m, magnitude + 1, Len(m))
                 ELSE Zeros(-magnitude) \o m)

\* The double nearest to sign * digits * 10^exp.
FloatOf(sign, digits, exp) ==
    LET nz == {i \in 1..Len(digits) : digits[i] # 0} IN
    IF nz = {} THEN [value |-> Zero(sign), exact |-> TRUE]
    ELSE Scaled(sign, SubSeq(digits, Least(nz), Greatest(nz)),
                (Greatest(nz) - Least(nz) + 1) + exp + (Len(digits) - Greatest(nz)))

\* float(i) of a Python int: the nearest double; OverflowError (ok = FALSE)
\* when that is beyond the largest double.
Converted(r) == [ok |-> r.value.k # "inf", value |-> r.value, exact |-> r.exact]
IntToFloat(x) == Converted(FloatOf(x.s, x.d, 0))

\* The binary numeral of a natural number.
RECURSIVE NatBits(_)
NatBits(n) == IF n = 0 THEN <<>> ELSE Append(NatBits(n \div 2), n % 2)

\* The float a (small) integer of the model is.
Num(n) == Binary(IF n < 0 THEN -1 ELSE 1, NatBits(IF n < 0 THEN -n ELSE n), 0)

----------------------------------------------------------------------------
(* Reading texts.  A character is a one-character string; a character that *)
(* is not printable ASCII is written by its code point, as in "U+00A0".    *)

DigitChars == <<"0", "1", "2", "3", "4", "5", "6", "7", "8", "9">>
Digits == {DigitChars[i] : i \in 1..10}
DigitValue(c) == (CHOOSE i \in 1..10 : DigitChars[i] = c) - 1
DigitValues(s) == [i \in 1..Len(s) |-> DigitValue(s[i])]

UpperChars == <<"A", "B", "C", "D", "E", "F", "G", "H", "I", "J", "K", "L",
                "M", "N", "O", "P", "Q", "R", "S", "T", "U", "V", "W", "X",
                "Y", "Z">>
LowerChars == <<"a", "b", "c", "d", "e", "f", "g", "h", "i", "j", "k", "l",
                "m", "n", "o", "p", "q", "r", "s", "t", "u", "v", "w", "x",
                "y", "z">>

\* The ASCII lower-case form of a character and of a text.
Lower(c) ==
    IF \E i \in 1..26 : UpperChars[i] = c
    THEN LowerChars[CHOOSE i \in 1..26 : UpperChars[i] = c]
    ELSE c

LowerText(s) == [i \in 1..Len(s) |-> Lower(s[i])]

\* The characters with the Unicode property White_Space.
Whitespace ==
    {"\t", "\n", "U+000B", "\f", "\r", " ", "U+0085", "U+00A0", "U+1680",
     "U+2000", "U+2001", "U+2002", "U+2003", "U+2004", "U+2005", "U+2006",
     "U+2007", "U+2008", "U+2009", "U+200A", "U+2028", "U+2029", "U+202F",
     "U+205F", "U+3000"}

\* str.trim(): the text without its leading and trailing white space.
Trim(s) ==
    LET keep == {i \in 1..Len(s) : s[i] \notin Whitespace}
    IN  IF keep = {} THEN <<>> ELSE SubSeq(s, Least(keep), Greatest(keep))

\* The first index at or after i that holds no digit (Len(u) + 1 if none).
DigitsEnd(u, i) ==
    Least({j \in i..Len(u) + 1 : j = Len(u) + 1 \/ u[j] \notin Digits})

\* The value of an exponent's digits.  An exponent of more than nine
\* significant digits is out of the reach of any mantissa a text can hold
\* and counts as 10^9.
ExponentValue(ds) ==
    LET nz == {i \in 1..Len(ds) : ds[i] # "0"}
        sig == IF nz = {} THEN <<>> ELSE SubSeq(ds, Least(nz), Len(ds))
        val[i \in 0..Len(sig)] == IF i = 0 THEN 0 ELSE 10 * val[i - 1] + DigitValue(sig[i])
    IN  IF Len(sig) > 9 THEN 1000000000 ELSE val[Len(sig)]

NotANumber == [ok |-> FALSE, value |-> Null]

\* An unsigned decimal: digits, "." digits, exponent; at least one digit
\* before the exponent, at least one in it, nothing after.
ReadDecimal(u, sign) ==
    LET n == Len(u)
        i1 == DigitsEnd(u, 1)
        hasDot == i1 <= n /\ u[i1] = "."
        f0 == IF hasDot THEN i1 + 1 ELSE i1
        i2 == IF hasDot THEN DigitsEnd(u, f0) ELSE i1
        intD == SubSeq(u, 1, i1 - 1)
        fracD == SubSeq(u, f0, i2 - 1)
        hasExp == i2 <= n /\ u[i2] \in {"e", "E"}
        s0 == i2 + 1
        expSigned == hasExp /\ s0 <= n /\ u[s0] \in {"+", "-"}
        expSign == IF expSigned /\ u[s0] = "-" THEN -1 ELSE 1
        x0 == IF expSigned THEN s0 + 1 ELSE s0
        i3 == IF hasExp THEN DigitsEnd(u, x0) ELSE i2
        expD == IF hasExp THEN SubSeq(u, x0, i3 - 1) ELSE <<>>
    IN  IF Len(intD) + Len(fracD) >= 1 /\ (hasExp => Len(expD) >= 1) /\ i3 = n + 1
        THEN [ok |-> TRUE,
              value |-> FloatOf(sign, DigitValues(intD \o fracD),
                                expSign * ExponentValue(expD) - Len(fracD)).value]
        ELSE NotANumber

\* A float written as text: an optional sign, then inf, infinity or nan in
\* any letter case, or a decimal.
ReadFloat(t) ==
    IF t = <<>> THEN NotANumber
    ELSE LET signed == t[1] \in {"+", "-"}
             sign == IF t[1] = "-" THEN -1 ELSE 1
             u == IF signed THEN Tail(t) ELSE t
         IN  IF LowerText(u) \in {<<"i", "n", "f">>, <<"i", "n", "f", "i",
                 "n", "i", "t", "y">>}
             THEN [ok |-> TRUE, value |-> Infinity(sign)]
             ELSE IF LowerText(u) = <<"n", "a", "n">>
             THEN [ok |-> TRUE, value |-> NaN]
             ELSE ReadDecimal(u, sign)

\* The text without underscores, when none leads, trails or is doubled.
UnderscoresOk(s) ==
    /\ s # <<>> /\ s[1] # "_" /\ s[Len(s)] # "_"
    /\ \E i \in 1..Len(s) : s[i] = "_"
    /\ \A i \in 1..Len(s) - 1 : ~(s[i] = "_" /\ s[i + 1] = "_")
StripUnderscores(s) == SelectSeq(s, LAMBDA c : c # "_")

\* pydantic's text -> float: the trimmed text read as a float, else the
\* text with its underscores removed read as a float.
OrWithoutUnderscores(r, s) ==
    IF r.ok THEN r
    ELSE IF UnderscoresOk(s) THEN ReadFloat(StripUnderscores(s))
    ELSE NotANumber

ParseFloat(s) == OrWithoutUnderscores(ReadFloat(Trim(s)), s)

\* pydantic's text -> bool: compared, ignoring ASCII letter case, with these.
TrueTexts == {<<"1">>, <<"t">>, <<"y">>, <<"o", "n">>, <<"y", "e", "s">>, <<
        "t", "r", "u", "e">>}
FalseTexts == {<<"0">>, <<"f">>, <<"n">>, <<"n", "o">>, <<"o", "f", "f">>, <<
        "f", "a", "l", "s", "e">>}

\* json.loads of a number of the request body: -?(0|[1-9][0-9]*) is an int
\* (of at most 4300 digits), with a fraction or an exponent it is the
\* nearest float (infinity beyond the largest); NaN, Infinity and -Infinity
\* are floats too.  Anything else is no JSON number.
json_number(text) ==
    LET neg == text # <<>> /\ text[1] = "-"
        u == IF neg THEN Tail(text) ELSE text
        sign == IF neg THEN -1 ELSE 1
        n == Len(u)
        i1 == DigitsEnd(u, 1)
        intD == SubSeq(u, 1, i1 - 1)
        intOk == Len(intD) >= 1 /\ (intD[1] = "0" => Len(intD) = 1)
        hasDot == i1 <= n /\ u[i1] = "."
        i2 == IF hasDot THEN DigitsEnd(u, i1 + 1) ELSE i1
        fracD == IF hasDot THEN SubSeq(u, i1 + 1, i2 - 1) ELSE <<>>
        hasExp == i2 <= n /\ u[i2] \in {"e", "E"}
        s0 == i2 + 1
        expSigned == hasExp /\ s0 <= n /\ u[s0] \in {"+", "-"}
        expSign == IF expSigned /\ u[s0] = "-" THEN -1 ELSE 1
        x0 == IF expSigned THEN s0 + 1 ELSE s0
        i3 == IF hasExp THEN DigitsEnd(u, x0) ELSE i2
        expD == IF hasExp THEN SubSeq(u, x0, i3 - 1) ELSE <<>>
    IN  IF text = <<"N", "a", "N">> THEN [ok |-> TRUE, value |-> NaN]
        ELSE IF u = <<"I", "n", "f", "i", "n", "i", "t", "y">> THEN [ok |-> TRUE, value |-> Infinity(sign)]
        ELSE IF ~(/\ intOk
                  /\ hasDot => Len(fracD) >= 1
                  /\ hasExp => Len(expD) >= 1
                  /\ i3 = n + 1)
        THEN NotANumber
        ELSE IF hasDot \/ hasExp
        THEN [ok |-> TRUE,
              value |-> FloatOf(sign, DigitValues(intD \o fracD),
                                expSign * ExponentValue(expD) - Len(fracD)).value]
        ELSE IF Len(intD) > 4300 THEN NotANumber
        ELSE [ok |-> TRUE, value |-> PyInt(sign, DigitValues(intD))]

----------------------------------------------------------------------------
(* Field declarations of the pydantic models.  type: the annotation;       *)
(* required: no default; nullable: Optional[...]; default: the default.    *)

Field(type, required, nullable, default) ==
    [type |-> type, required |-> required, nullable |-> nullable, default |-> default]

ProductFields ==
    {"title", "description", "price", "category", "in_stock",
     "image_url", "buy_url", "featured", "tags"}

LeadFields == {"name", "email", "message", "source"}

ProductIn ==
    [f \in ProductFields |->
        CASE f = "title"       -> Field("str", TRUE, FALSE, Missing)
          [] f = "description" -> Field("str", FALSE, TRUE, Null)
          [] f = "price"       -> Field("float", TRUE, FALSE, Missing)
          [] f = "category"    -> Field("str", TRUE, FALSE, Missing)
          [] f = "in_stock"    -> Field("bool", FALSE, FALSE, Bool(TRUE))
          [] f = "image_url"   -> Field("str", FALSE, TRUE, Null)
          [] f = "buy_url"     -> Field("str", FALSE, TRUE, Null)
          [] f = "featured"    -> Field("bool", FALSE, FALSE, Bool(FALSE))
          [] f = "tags"        -> Field("list", FALSE, TRUE, Null)]

\* Mutant of LeadIn: source declared without its default ("website").
LeadIn_no_default ==
    [f \in LeadFields |->
        CASE f = "name"    -> Field("str", TRUE, FALSE, Missing)
          [] f = "email"   -> Field("str", TRUE, FALSE, Missing)
          [] f = "message" -> Field("str", FALSE, TRUE, Null)
          [] f = "source"  -> Field("str", FALSE, TRUE, Null)]

LeadIn ==
    [f \in LeadFields |->
        CASE f = "name"    -> Field("str", TRUE, FALSE, Missing)
          [] f = "email"   -> Field("str", TRUE, FALSE, Missing)
          [] f = "message" -> Field("str", FALSE, TRUE, Null)
          [] f = "source"  -> Field("str", FALSE, TRUE, Str(<<"w", "e", "b",
                  "s", "i", "t", "e">>))]

\* schemas.Product and schemas.Lead: the canonical records of the data model.
ProductSchema ==
    [f \in ProductFields |->
        CASE f = "title"       -> Field("str", TRUE, FALSE, Missing)
          [] f = "description" -> Field("str", FALSE, TRUE, Null)
          [] f = "price"       -> Field("float", TRUE, FALSE, Missing)
          [] f = "category"    -> Field("str", TRUE, FALSE, Missing)
          [] f = "in_stock"    -> Field("bool", FALSE, FALSE, Bool(TRUE))
          [] f = "image_url"   -> Field("str", FALSE, TRUE, Null)
          [] f = "buy_url"     -> Field("str", FALSE, TRUE, Null)
          [] f = "featured"    -> Field("bool", FALSE, FALSE, Bool(FALSE))
          [] f = "tags"        -> Field("list", FALSE, TRUE, Null)]

LeadSchema ==
    [f \in LeadFields |->
        CASE f = "name"    -> Field("str", TRUE, FALSE, Missing)
          [] f = "email"   -> Field("str", TRUE, FALSE, Missing)
          [] f = "message" -> Field("str", FALSE, TRUE, Null)
          [] f = "source"  -> Field("str", FALSE, FALSE, Str(<<"w", "e",
                  "b", "s", "i", "t", "e">>))]

\* Whether a present, non-null value is accepted for an annotation
\* (pydantic's lax mode).  str: a text only.  float: a float, a boolean, an
\* int that float() converts, or a text that reads as a float.  bool: a
\* boolean, the ints 0 and 1, the floats 0.0, -0.0 and 1.0, or one of the
\* boolean texts in any letter case.  List[str]: a list all of whose
\* elements are texts.
TypeOk(type, x) ==
    CASE type = "str"   -> x.t = "str"
      [] type = "float" -> \/ x.t \in {"float", "bool"}
                           \/ (x.t = "int" /\ IntToFloat(x).ok)
                           \/ (x.t = "str" /\ ParseFloat(x.v).ok)
      [] type = "bool"  -> \/ x.t = "bool"
                           \/ (x.t = "int" /\ x \in {Integer(0), Integer(1)})
                           \/ (x.t = "float" /\ x \in {Zero(1), Zero(-1), Num(1)})
                           \/ (x.t = "str" /\ LowerText(x.v) \in TrueTexts \cup FalseTexts)
      [] type = "list"  -> /\ x.t = "list"
                           /\ \A i \in 1..Len(x.v) : x.v[i].t = "str"

\* The value a model holds for an accepted input: a float field holds the
\* float (True is 1.0, 5 is 5.0, "5" is 5.0), a bool field the boolean.
Coerce(type, x) ==
    CASE type = "float" /\ x.t = "bool" -> Num(IF x.v THEN 1 ELSE 0)
      [] type = "float" /\ x.t = "int"  -> IntToFloat(x).value
      [] type = "float" /\ x.t = "str"  -> ParseFloat(x.v).value
      [] type = "bool" /\ x.t = "int"   -> Bool(x = Integer(1))
      [] type = "bool" /\ x.t = "float" -> Bool(x = Num(1))
      [] type = "bool" /\ x.t = "str"   -> Bool(LowerText(x.v) \in TrueTexts)
      [] OTHER -> x

FieldOk(fd, x) ==
    CASE x.t = "missing" -> ~fd.required
      [] x.t = "null"    -> fd.nullable
      [] OTHER           -> TypeOk(fd.type, x)

FieldValue(fd, x) ==
    IF x.t = "missing" THEN fd.default
    ELSE IF x.t = "null" THEN Null
    ELSE Coerce(fd.type, x)

\* Model(**body): whether construction succeeds, and model_dump() of it.
Validates(model, body) == \A f \in DOMAIN model : FieldOk(model[f], body[f])
model_dump(model, body) == [f \in DOMAIN model |-> FieldValue(model[f], body[f])]

----------------------------------------------------------------------------
(* The document store (the database module) *)

HexDigit(n) == SubSeq(<<"0", "1", "2", "3", "4", "5", "6", "7", "8", "9",
                        "a", "b", "c", "d", "e", "f">>, n + 1, n + 1)

RECURSIVE Hex(_)
Hex(n) == IF n < 16 THEN HexDigit(n) ELSE Hex(n \div 16) \o HexDigit(n % 16)

\* A store-assigned identifier, and str() of it: 24 hexadecimal digits.
ObjectId(n) == [oid |-> n]
ObjectIdStr(o) ==
    LET h == Hex(o.oid) IN Str([i \in 1..(24 - Len(h)) |-> "0"] \o h)

Doc(record, id) ==
    [f \in DOMAIN record \cup {"_id"} |-> IF f = "_id" THEN id ELSE record[f]]

Fields(d) == [f \in DOMAIN d \ {"_id"} |-> d[f]]

\* create_document(collection, record): inserts one document under a fresh
\* identifier and returns the identifier as a string.
create_document(d, collection, record) ==
    [db |-> [d EXCEPT ![collection] = Append(@, Doc(record, ObjectId(d.next))),
                      !.next = @ + 1],
     id |-> ObjectIdStr(ObjectId(d.next))]

Matches(doc, filter_dict) == \A k \in DOMAIN filter_dict : doc[k] = filter_dict[k]

\* A dict the database module hands out: its content, and the place in the
\* collection of the stored document it is (0: a dict of its own).
Dict(doc, at) == [doc |-> doc, at |-> at]

\* get_documents(collection, filter_dict, limit): up to limit documents that
\* match the equality filter, in the store's (insertion) order, each decoded
\* from the store's answer into a dict of its own.
get_documents(d, collection, filter_dict, limit) ==
    LET found == SelectSeq(d[collection], LAMBDA doc : Matches(doc, filter_dict))
    IN  [i \in 1..Min(Max(limit, 0), Len(found)) |-> Dict(found[i], 0)]

\* The store once the handler has assigned to the dicts it was handed: a
\* dict that is a stored document carries the assignment into the store.
WriteBack(d, collection, dicts) ==
    [d EXCEPT ![collection] =
        [i \in 1..Len(@) |->
            IF \E j \in 1..Len(dicts) : dicts[j].at = i
            THEN dicts[CHOOSE j \in 1..Len(dicts) : dicts[j].at = i].doc
            ELSE @[i]]]

EmptyDb == [product |-> <<>>, lead |-> <<>>, next |-> 1]

\* The store after the product records of a sequence were created in order,
\* each by create_document: the i-th under the i-th identifier.
StoreOf(records) ==
    [product |-> [i \in 1..Len(records) |-> Doc(records[i], ObjectId(i))],
     lead |-> <<>>,
     next |-> Len(records) + 1]

----------------------------------------------------------------------------
(* Handlers.  Each yields the response and the store and call log after it. *)
(* cond is what the database module does for this request: "ok", or         *)
(* "no_module" / "import_error" (the import raises), "db_none" /            *)
(* "op_error" (the store operation raises).                                 *)

Result(status, body, d, cl) == [status |-> status, body |-> body, db |-> d, calls |-> cl]

ImportFails(cond) == cond \in {"no_module", "import_error"}

Call(r, collection, record, cond) ==
    [slot |-> r, collection |-> collection, record |-> record, ok |-> cond = "ok"]

\* GET /
read_root == [message |-> Str(<<"S", "h", "o", "m", "e", "e", " ", "S", "p",
                                "i", "c", "e", "s", " ", "B", "a", "c", "k",
                                "e", "n", "d", " ", "R", "u", "n", "n", "i",
                                "n", "g">>)]

\* GET /schema: the three schemas, or the import of schemas raising.
get_schema(schemasOk) ==
    IF schemasOk
    THEN [status |-> Ok,
          body |-> [user |-> "User.model_json_schema()",
                    product |-> DOMAIN ProductSchema,
                    lead |-> DOMAIN LeadSchema]]
    ELSE [status |-> ServerError, body |-> [detail |-> "Internal Server Error"]]

\* The filter list_products builds from its query parameters.
FilterDict(category, featured) ==
    [k \in (IF Truthy(category) THEN {"category"} ELSE {})
           \cup (IF featured.t # "missing" THEN {"featured"} ELSE {}) |->
        IF k = "category" THEN category ELSE featured]

\* Mutant of LimitArg: the limit parameter is not forwarded.
LimitArg_ignored(limit) == DefaultLimit

LimitArg(limit) == IF limit.t = "missing" THEN DefaultLimit ELSE IntValue(limit)

\* d["_id"] = str(d.get("_id")), for one of the dicts handed out.
RewriteId(dict) == [dict EXCEPT !.doc["_id"] = ObjectIdStr(@)]

\* The response as response_model=List[dict] puts it on the wire: a float
\* that is infinite or not a number becomes null.
SerializeValue(x) == IF x.t = "float" /\ x.k # "finite" THEN Null ELSE x
Serialize(doc) == [f \in DOMAIN doc |-> SerializeValue(doc[f])]

\* Mutant of list_products: the limit forwarded is one too small.
list_products_short(query, d, cl, cond) ==
    IF cond # "ok"
    THEN Result(ServerError, [detail |-> "Internal Server Error"], d, cl)
    ELSE LET docs == get_documents(d, "product",
                                   FilterDict(query.category, query.featured),
                                   LimitArg(query.limit) - 1)
             out == [i \in 1..Len(docs) |-> RewriteId(docs[i])]
         IN  Result(Ok, [i \in 1..Len(out) |-> Serialize(out[i].doc)],
                    WriteBack(d, "product", out), cl)

\* Mutant of list_products: the loop assigns to the stored documents.
list_products_in_place(query, d, cl, cond) ==
    IF cond # "ok"
    THEN Result(ServerError, [detail |-> "Internal Server Error"], d, cl)
    ELSE LET docs == get_documents(d, "product",
                                   FilterDict(query.category, query.featured),
                                   LimitArg(query.limit))
             stored == [i \in 1..Len(docs) |->
                           Dict(docs[i].doc,
                                CHOOSE k \in 1..Len(d.product) : d.product[k] = docs[i].doc)]
             out == [i \in 1..Len(stored) |-> RewriteId(stored[i])]
         IN  Result(Ok, [i \in 1..Len(out) |-> Serialize(out[i].doc)],
                    WriteBack(d, "product", out), cl)

\* GET /products: the documents found, the loop over them (lines 114-115),
\* and the list as it is sent.
list_products(query, d, cl, cond) ==
    IF cond # "ok"
    THEN Result(ServerError, [detail |-> "Internal Server Error"], d, cl)
    ELSE LET docs == get_documents(d, "product",
                                   FilterDict(query.category, query.featured),
                                   LimitArg(query.limit))
             out == [i \in 1..Len(docs) |-> RewriteId(docs[i])]
         IN  Result(Ok, [i \in 1..Len(out) |-> Serialize(out[i].doc)],
                    WriteBack(d, "product", out), cl)

\* POST /products
create_product(r, body, d, cl, cond) ==
    IF ~Validates(ProductIn, body)
    THEN Result(Unprocessable, [detail |-> "body"], d, cl)
    ELSE LET payload == model_dump(ProductIn, body) IN
         IF ImportFails(cond) \/ ~Validates(ProductSchema, payload)
         THEN Result(ServerError, [detail |-> "Internal Server Error"], d, cl)
         ELSE LET log == Append(cl, Call(r, "product", payload, cond)) IN
              IF cond # "ok"
              THEN Result(ServerError, [detail |-> "Internal Server Error"], d, log)
              ELSE LET ins == create_document(d, "product", payload)
                   IN  Result(Created, [id |-> ins.id], ins.db, log)

\* Mutant of create_lead: the document is written before the canonical
\* schema is checked.
create_lead_write_first(r, body, d, cl, cond) ==
    IF ~Validates(LeadIn, body)
    THEN Result(Unprocessable, [detail |-> "body"], d, cl)
    ELSE LET payload == model_dump(LeadIn, body) IN
         IF ImportFails(cond)
         THEN Result(ServerError, [detail |-> "Internal Server Error"], d, cl)
         ELSE LET log == Append(cl, Call(r, "lead", payload, cond)) IN
              IF cond # "ok"
              THEN Result(ServerError, [detail |-> "Internal Server Error"], d, log)
              ELSE LET ins == create_document(d, "lead", payload) IN
                   IF ~Validates(LeadSchema, payload)
                   THEN Result(ServerError, [detail |-> "Internal Server Error"],
                               ins.db, log)
                   ELSE Result(Created,
                               [id |-> ins.id,
                                message |-> Str(<<"T", "h", "a", "n", "k",
                                        "s", " ", "f", "o", "r", " ", "r",
                                        "e", "a", "c", "h", "i", "n", "g",
                                        " ", "o", "u", "t", "!">>)],
                               ins.db, log)

\* Mutant of create_lead: the document is written twice.
create_lead_twice(r, body, d, cl, cond) ==
    IF ~Validates(LeadIn, body)
    THEN Result(Unprocessable, [detail |-> "body"], d, cl)
    ELSE LET payload == model_dump(LeadIn, body) IN
         IF ImportFails(cond) \/ ~Validates(LeadSchema, payload)
         THEN Result(ServerError, [detail |-> "Internal Server Error"], d, cl)
         ELSE LET log == Append(Append(cl, Call(r, "lead", payload, cond)),
                                Call(r, "lead", payload, cond)) IN
              IF cond # "ok"
              THEN Result(ServerError, [detail |-> "Internal Server Error"], d, log)
              ELSE LET first == create_document(d, "lead", payload)
                       ins == create_document(first.db, "lead", payload)
                   IN  Result(Created,
                              [id |-> ins.id,
                               message |-> Str(<<"T", "h", "a", "n", "k",
                                       "s", " ", "f", "o", "r", " ", "r",
                                       "e", "a", "c", "h", "i", "n", "g",
                                       " ", "o", "u", "t", "!">>)],
                              ins.db, log)

\* POST /lead
create_lead(r, body, d, cl, cond) ==
    IF ~Validates(LeadIn, body)
    THEN Result(Unprocessable, [detail |-> "body"], d, cl)
    ELSE LET payload == model_dump(LeadIn, body) IN
         IF ImportFails(cond) \/ ~Validates(LeadSchema, payload)
         THEN Result(ServerError, [detail |-> "Internal Server Error"], d, cl)
         ELSE LET log == Append(cl, Call(r, "lead", payload, cond)) IN
              IF cond # "ok"
              THEN Result(ServerError, [detail |-> "Internal Server Error"], d, log)
              ELSE LET ins == create_document(d, "lead", payload)
                   IN  Result(Created,
                              [id |-> ins.id,
                               message |-> Str(<<"T", "h", "a", "n", "k",
                                       "s", " ", "f", "o", "r", " ", "r",
                                       "e", "a", "c", "h", "i", "n", "g",
                                       " ", "o", "u", "t", "!">>)],
                              ins.db, log)

----------------------------------------------------------------------------
(* GET /test.  Text(prefix, tail) is an f-string: a fixed part and the      *)
(* characters appended to it (the truncated exception text).                *)

Text(prefix, tail) == Str(prefix \o tail)

\* os.getenv(name) is truthy: the variable is set to a non-empty value.
EnvFlag(x) ==
    IF Truthy(x) THEN Text(<<"U+2705", " ", "S", "e", "t">>, <<>>) ELSE Text(<<
            "U+274C", " ", "N", "o", "t", " ", "S", "e", "t">>, <<>>)

\* The response dict as the try block (lines 52-82) leaves it.
Probe(e) ==
    LET init == [backend |-> Text(<<"U+2705", " ", "R", "u", "n", "n", "i",
                                    "n", "g">>, <<>>),
                 database |-> Text(<<"U+274C", " ", "N", "o", "t", " ", "A",
                                     "v", "a", "i", "l", "a", "b", "l", "e">>, <<>>),
                 database_url |-> Null,
                 database_name |-> Null,
                 connection_status |-> Text(<<"N", "o", "t", " ", "C", "o",
                         "n", "n", "e", "c", "t", "e", "d">>, <<>>),
                 collections |-> <<>>]
        connected == [init EXCEPT
                 !.database_url = Text(<<"U+2705", " ", "C", "o", "n", "f",
                         "i", "g", "u", "r", "e", "d">>, <<>>),
                 !.database_name = IF e.dbname.t # "missing"
                                   THEN Text(e.dbname.v, <<>>)
                                   ELSE Text(<<"U+2705", " ", "C", "o", "n",
                                           "n", "e", "c", "t", "e", "d">>, <<>>),
                 !.connection_status = Text(<<"C", "o", "n", "n", "e", "c",
                         "t", "e", "d">>, <<>>)]
    IN  CASE e.mode = "no_module" ->
               [init EXCEPT !.database =
                   Text(<<"U+274C", " ", "D", "a", "t", "a", "b", "a", "s",
                          "e", " ", "m", "o", "d", "u", "l", "e", " ", "n",
                          "o", "t", " ", "f", "o", "u", "n", "d", " ", "(",
                          "r", "u", "n", " ", "e", "n", "a", "b", "l", "e",
                          "-", "d", "a", "t", "a", "b", "a", "s", "e", " ",
                          "f", "i", "r", "s", "t", ")">>, <<>>)]
          [] e.mode = "import_error" ->
               [init EXCEPT !.database = Text(<<"U+274C", " ", "E", "r",
                       "r", "o", "r", ":", " ">>, Take(e.error, TruncLen))]
          [] e.mode = "db_none" ->
               [init EXCEPT !.database = Text(<<"U+26A0", "U+FE0F", " ",
                       " ", "A", "v", "a", "i", "l", "a", "b", "l", "e",
                       " ", "b", "u", "t", " ", "n", "o", "t", " ", "i",
                       "n", "i", "t", "i", "a", "l", "i", "z", "e", "d">>, <<>>)]
          [] e.mode = "list_error" ->
               [connected EXCEPT !.database =
                   Text(<<"U+26A0", "U+FE0F", " ", " ", "C", "o", "n", "n",
                          "e", "c", "t", "e", "d", " ", "b", "u", "t", " ",
                          "E", "r", "r", "o", "r", ":", " ">>,
                           Take(e.error, TruncLen))]
          [] e.mode = "working" ->
               [connected EXCEPT !.collections = Take(e.collections, MaxShown),
                                 !.database = Text(<<"U+2705", " ", "C",
                                         "o", "n", "n", "e", "c", "t", "e",
                                         "d", " ", "&", " ", "W", "o", "r",
                                         "k", "i", "n", "g">>, <<>>)]

\* Mutant of test_database: only ImportError is caught around the import.
test_database_uncaught(e) ==
    IF e.mode = "import_error"
    THEN [status |-> ServerError, body |-> Probe(e)]
    ELSE [status |-> Ok,
          body |-> [Probe(e) EXCEPT !.database_url = EnvFlag(e.url),
                                    !.database_name = EnvFlag(e.name)]]

\* Mutant of test_database: the two fields keep what the probe put there.
test_database_raw(e) == [status |-> Ok, body |-> Probe(e)]

\* GET /test: the probe, then the two presence flags (lines 84-86).
test_database(e) ==
    [status |-> Ok,
     body |-> [Probe(e) EXCEPT !.database_url = EnvFlag(e.url),
                               !.database_name = EnvFlag(e.name)]]

----------------------------------------------------------------------------
(* Requests *)

NoBody == [t |-> "missing"]
NoQuery == [category |-> Missing, featured |-> Missing, limit |-> Missing]
NoReq == [route |-> "none", body |-> NoBody, query |-> NoQuery]
NoResp == [status |-> 0, body |-> NoBody]

Request(route, body, query) == [route |-> route, body |-> body, query |-> query]

ProductBody(title, price, category, featured, tags) ==
    [f \in ProductFields |->
        CASE f = "title" -> title
          [] f = "price" -> price
          [] f = "category" -> category
          [] f = "featured" -> featured
          [] f = "tags" -> tags
          [] OTHER -> Missing]

LeadBody(name, email, source) ==
    [f \in LeadFields |->
        CASE f = "name" -> name
          [] f = "email" -> email
          [] f = "source" -> source
          [] OTHER -> Missing]

Query(category, featured, limit) ==
    [category |-> category, featured |-> featured, limit |-> limit]

\* The value json.loads makes of a number written in a request body.
Json(text) == json_number(text).value

\* Request bodies sent to POST /products.  Accepted: a plain one (price 5);
\* one with the price and featured given as texts (the price padded with a
\* no-break space and a space) and a list of tags; one with the price given
\* as true and featured as a number that reads as 1.0; one whose price is
\* beyond the largest float.  Refused: one without its title and with a
\* price that is no number; one whose tags hold a number; one whose price is
\* an integer beyond the largest float (10^309).
ProductBodies ==
    {ProductBody(Str(<<"T", "u", "r", "m", "e", "r", "i", "c">>), Json(<<"5">>),
                 Str(<<"S", "p", "i", "c", "e", "s">>), Missing, Missing),
     ProductBody(Str(<<"C", "h", "a", "i">>), Str(<<"U+00A0", "3", "e", "0",
             " ">>),
                 Str(<<"T", "e", "a">>), Str(<<"y", "E", "s">>),
                 List(<<Str(<<"h", "o", "t">>)>>)),
     ProductBody(Str(<<"C", "l", "o", "v", "e">>), Bool(TRUE),
                 Str(<<"S", "p", "i", "c", "e", "s">>), Json(<<"1", ".",
                         "0", "0", "0", "0", "0", "0", "0", "0", "0", "0",
                         "0", "0", "0", "0", "0", "0", "0", "0", "0", "1">>), Missing),
     ProductBody(Str(<<"S", "a", "f", "f", "r", "o", "n">>), Json(<<"1",
             "e", "4", "0", "0">>),
                 Str(<<"S", "p", "i", "c", "e", "s">>), Missing, Missing),
     ProductBody(Missing, Str(<<"c", "h", "e", "a", "p">>),
                 Str(<<"S", "p", "i", "c", "e", "s">>), Missing, Missing),
     ProductBody(Str(<<"S", "a", "l", "t">>), Json(<<"2">>),
                 Str(<<"S", "p", "i", "c", "e", "s">>), Missing,
                 List(<<Str(<<"a">>), Json(<<"2">>)>>)),
     ProductBody(Str(<<"G", "o", "l", "d">>), PyInt(1, <<1>> \o Zeros(309)),
                 Str(<<"S", "p", "i", "c", "e", "s">>), Missing, Missing)}

\* Request bodies sent to POST /lead: source omitted, given, null; no email.
LeadBodies ==
    {LeadBody(Str(<<"A", "n", "n">>), Str(<<"a", "n", "n", "@", "e", "x",
            "a", "m", "p", "l", "e", ".", "c", "o", "m">>), Missing),
     LeadBody(Str(<<"B", "o", "b">>), Str(<<"b", "o", "b", "@", "e", "x",
             "a", "m", "p", "l", "e", ".", "c", "o", "m">>), Str(<<"f", "a",
             "i", "r">>)),
     LeadBody(Str(<<"C", "y">>), Str(<<"c", "y", "@", "e", "x", "a", "m",
                                       "p", "l", "e", ".", "c", "o", "m">>), Null),
     LeadBody(Str(<<"D", "e", "e">>), Missing, Missing)}

Categories == {Missing, Str(<<>>), Str(<<"S", "p", "i", "c", "e", "s">>)}
Featureds == {Missing, Bool(TRUE), Bool(FALSE)}
Limits == {Missing, Integer(-1), Integer(0), Integer(1), Integer(2)}

AllQueries == {Query(c, f, l) : c \in Categories, f \in Featureds, l \in Limits}

ApiRequests ==
    {Request("POST /products", b, NoQuery) : b \in ProductBodies}
    \cup {Request("POST /lead", b, NoQuery) : b \in LeadBodies}
    \cup {Request("GET /products", NoBody, q) :
             q \in {NoQuery, Query(Str(<<"S", "p", "i", "c", "e", "s">>), Missing, Integer(1))}}
    \cup {Request(x, NoBody, NoQuery) : x \in {"GET /", "GET /schema", "GET /test"}}

QueryRequests == {Request("GET /products", NoBody, q) : q \in AllQueries}

ProbeRequests == {Request("GET /test", NoBody, NoQuery)}

----------------------------------------------------------------------------
(* Environments and prior store contents *)

Chars(n) == [i \in 1..n |-> "e"]
CollNames(n) == [i \in 1..n |-> <<"collection", i>>]

Environment(mode, url, name, dbname, ncoll, nerr) ==
    [mode |-> mode, url |-> url, name |-> name, dbname |-> dbname,
     collections |-> CollNames(ncoll), error |-> Chars(nerr)]

Modes == {"no_module", "import_error", "db_none", "list_error", "working"}

AllEnvs ==
    {Environment(m, u, n, dn, k, l) :
        m \in Modes,
        u \in {Missing, Str(<<>>), Str(<<"m", "o", "n", "g", "o", "d", "b",
                ":", "/", "/", "u", "s", "e", "r", ":", "s", "e", "c", "r",
                "e", "t", "@", "h", "o", "s", "t">>)},
        n \in {Missing, Str(<<>>), Str(<<"s", "h", "o", "m", "e", "e">>)},
        dn \in {Missing, Str(<<"s", "h", "o", "m", "e", "e">>)},
        k \in 0..MaxColl,
        l \in {3, TruncLen + 5}}

ApiEnvs ==
    {Environment("working", Str(<<"m", "o", "n", "g", "o", "d", "b", ":",
                                  "/", "/", "u", "s", "e", "r", ":", "s",
                                  "e", "c", "r", "e", "t", "@", "h", "o",
                                  "s", "t">>), Str(<<"s", "h", "o", "m",
            "e", "e">>),
                 Str(<<"s", "h", "o", "m", "e", "e">>), 2, 3),
     Environment("no_module", Missing, Missing, Missing, 0, 3)}

\* What the database module does for one request in an environment.
Conds(e) ==
    CASE e.mode = "working" -> {"ok", "op_error"}
      [] e.mode = "list_error" -> {"op_error"}
      [] OTHER -> {e.mode}

\* Records of products created earlier through POST /products.
StoredRecords ==
    {model_dump(ProductIn, ProductBody(Str(<<"I", "t", "e", "m">>), Num(1), c, f, Missing)) :
        c \in {Str(<<>>), Str(<<"S", "p", "i", "c", "e", "s">>), Str(<<"T",
                "e", "a">>)}, f \in {Bool(TRUE), Bool(FALSE)}}

Filler(n) ==
    [i \in 1..n |-> model_dump(ProductIn,
                               ProductBody(Str(<<"I", "t", "e", "m">>),
                                       Num(1), Str(<<"S", "p", "i", "c",
                                               "e", "s">>), Missing, Missing))]

RECURSIVE SeqsUpTo(_, _)
SeqsUpTo(S, n) ==
    IF n = 0 THEN {<<>>}
    ELSE LET shorter == SeqsUpTo(S, n - 1)
         IN  shorter \cup {Append(s, x) : s \in shorter, x \in S}

PriorSizes == {0, DefaultLimit - 1, DefaultLimit}

----------------------------------------------------------------------------
(* Actions *)

Finish(r, res) ==
    /\ pc' = [pc EXCEPT ![r] = "done"]
    /\ resp' = [resp EXCEPT ![r] = [status |-> res.status, body |-> res.body]]

\* The server accepts a request; its handler runs later, concurrently with
\* the handlers of the other accepted requests.
Accept(r, rq) ==
    /\ pc[r] = "idle"
    /\ pc' = [pc EXCEPT ![r] = "pending"]
    /\ req' = [req EXCEPT ![r] = rq]
    /\ UNCHANGED <<db, env, resp, calls>>

Pending(r, route) == pc[r] = "pending" /\ req[r].route = route

ReadRoot(r) ==
    /\ Pending(r, "GET /")
    /\ Finish(r, [status |-> Ok, body |-> read_root])
    /\ UNCHANGED <<db, env, req, calls>>

GetSchema(r, schemasOk) ==
    /\ Pending(r, "GET /schema")
    /\ Finish(r, get_schema(schemasOk))
    /\ UNCHANGED <<db, env, req, calls>>

TestDatabase(r) ==
    /\ Pending(r, "GET /test")
    /\ Finish(r, test_database(env))
    /\ UNCHANGED <<db, env, req, calls>>

Apply(r, res) ==
    /\ Finish(r, res)
    /\ db' = res.db
    /\ calls' = res.calls
    /\ UNCHANGED <<env, req>>

ListProducts(r, cond) ==
    /\ Pending(r, "GET /products")
    /\ Apply(r, list_products(req[r].query, db, calls, cond))

CreateProduct(r, cond) ==
    /\ Pending(r, "POST /products")
    /\ Apply(r, create_product(r, req[r].body, db, calls, cond))

CreateLead(r, cond) ==
    /\ Pending(r, "POST /lead")
    /\ Apply(r, create_lead(r, req[r].body, db, calls, cond))

Idle ==
    /\ pc = [r \in Reqs |-> "idle"]
    /\ req = [r \in Reqs |-> NoReq]
    /\ resp = [r \in Reqs |-> NoResp]
    /\ calls = <<>>

Init ==
    /\ Idle
    /\ db \in {StoreOf(Filler(n)) : n \in PriorSizes}
    /\ env \in ApiEnvs

Next ==
    \/ \E r \in Reqs, rq \in ApiRequests : Accept(r, rq)
    \/ \E r \in Reqs : ReadRoot(r)
    \/ \E r \in Reqs, ok \in BOOLEAN : GetSchema(r, ok)
    \/ \E r \in Reqs : TestDatabase(r)
    \/ \E r \in Reqs, cond \in Conds(env) : ListProducts(r, cond)
    \/ \E r \in Reqs, cond \in Conds(env) : CreateProduct(r, cond)
    \/ \E r \in Reqs, cond \in Conds(env) : CreateLead(r, cond)

Spec == Init /\ [][Next]_vars

\* GET /products as a function of the store content and the query.
InitQuery ==
    /\ Idle
    /\ db \in {StoreOf(s) : s \in SeqsUpTo(StoredRecords, MaxDocs)}
              \cup {StoreOf(Filler(DefaultLimit + 1))}
    /\ env \in {e \in ApiEnvs : e.mode = "working"}

NextQuery ==
    \/ \E rq \in QueryRequests : Accept(1, rq)
    \/ \E cond \in Conds(env) : ListProducts(1, cond)

SpecQuery == InitQuery /\ [][NextQuery]_vars

\* GET /test as a function of the environment.
InitProbe ==
    /\ Idle
    /\ db = EmptyDb
    /\ env \in AllEnvs

NextProbe ==
    \/ \E r \in Reqs, rq \in ProbeRequests : Accept(r, rq)
    \/ \E r \in Reqs : TestDatabase(r)

SpecProbe == InitProbe /\ [][NextProbe]_vars

----------------------------------------------------------------------------
(* Vocabulary of the properties *)

Done(r, route) == pc[r] = "done" /\ req[r].route = route

\* The step in which the handler of slot r runs.
Handled(r, route) == pc[r] = "pending" /\ pc'[r] = "done" /\ req[r].route = route

CallsOf(r) == {i \in 1..Len(calls) : calls[i].slot = r}

\* create_document was called for slot r and succeeded.
Wrote(r) == \E i \in CallsOf(r) : calls[i].ok

NonEmptyString(x) == x.t = "str" /\ Len(x.v) > 0

InModel(r) == IF req[r].route = "POST /lead" THEN LeadIn ELSE ProductIn
CanonicalSchema(r) == IF req[r].route = "POST /lead" THEN LeadSchema ELSE ProductSchema
IsPost(r) == req[r].route \in {"POST /products", "POST /lead"}

BodyValid(r) == Validates(InModel(r), req[r].body)
SchemaValid(r) == Validates(CanonicalSchema(r), model_dump(InModel(r), req[r].body))
PayloadValid(r) == BodyValid(r) /\ SchemaValid(r)

\* Python's == on two values: equal values of one kind (not-a-number equals
\* nothing, 0.0 equals -0.0), an int and the float that is exactly it, or a
\* boolean and the number it counts as (True == 1, False == 0).
AsNumber(x) == IF x.t = "bool" THEN Integer(IF x.v THEN 1 ELSE 0) ELSE x

FloatEq(a, b) == a # NaN /\ b # NaN /\ (a = b \/ {a, b} = {Zero(1), Zero(-1)})

IntEqFloat(i, f) ==
    LET r == IntToFloat(i) IN r.ok /\ r.exact /\ FloatEq(r.value, f)

PyEq(x, y) ==
    LET a == AsNumber(x)
        b == AsNumber(y)
    IN  CASE x.t = "bool" /\ y.t = "bool" -> x = y
          [] a.t = "int" /\ b.t = "int" -> a = b
          [] a.t = "float" /\ b.t = "float" -> FloatEq(a, b)
          [] a.t = "int" /\ b.t = "float" -> IntEqFloat(a, b)
          [] a.t = "float" /\ b.t = "int" -> IntEqFloat(b, a)
          [] OTHER -> x = y

Supplied(body) == {f \in DOMAIN body : body[f].t # "missing"}

\* The response lists a document whose fields equal, field by field, what
\* slot q submitted.
ListsSubmitted(body, q) ==
    \E i \in DOMAIN body :
        \A f \in Supplied(req[q].body) : PyEq(body[i][f], req[q].body[f])

\* The response lists a document whose non-identifier fields are the record
\* ProductIn made of what slot q submitted (model_dump: defaults filled in,
\* values converted to the declared types), as it is sent.
Lists(body, q) ==
    \E i \in DOMAIN body :
        Fields(body[i]) = Serialize(model_dump(ProductIn, req[q].body))

Acknowledged(q) ==
    /\ Done(q, "POST /products")
    /\ resp[q].status = Created

UnfilteredGet(r) == Handled(r, "GET /products") /\ req[r].query = NoQuery

AllDocs == db.product \o db.lead

----------------------------------------------------------------------------
(* C1 *)

\* The handler step of slot r reached create_document and the write succeeded.
Writes(r) ==
    /\ Len(calls') = Len(calls) + 1
    /\ calls'[Len(calls')].slot = r
    /\ calls'[Len(calls')].ok

\* C1 as stated: POST /products with a valid payload p is answered 201 with
\* a non-empty string identifier, and every later GET /products without
\* parameters returns a list holding a document whose fields equal p
\* exactly, whatever the number of stored products.
C1_AnyStoreSize ==
    [][\A r \in Reqs :
          /\ (Handled(r, "POST /products") /\ PayloadValid(r))
             => /\ resp'[r].status = Created
                /\ NonEmptyString(resp'[r].body.id)
          /\ UnfilteredGet(r)
             => /\ resp'[r].status = Ok
                /\ \A q \in Reqs :
                      Acknowledged(q) => ListsSubmitted(resp'[r].body, q)]_vars

\* C1 amended: POST /products with a valid payload p is answered 201 with a
\* non-empty string identifier when create_document is reached and succeeds,
\* and 500 with the store unchanged otherwise; after a 201, a later GET
\* /products without parameters is answered 500 or with a list of at most 50
\* documents which, when the store holds at most 50 products, holds a
\* document whose non-identifier fields are model_dump() of p as it is sent
\* (a price that is infinite or not a number as null).
C1_WithinDefaultLimit ==
    [][\A r \in Reqs :
          /\ (Handled(r, "POST /products") /\ PayloadValid(r))
             => IF Writes(r)
                THEN /\ resp'[r].status = Created
                     /\ NonEmptyString(resp'[r].body.id)
                ELSE /\ resp'[r].status = ServerError
                     /\ db' = db
          /\ UnfilteredGet(r)
             => \/ resp'[r].status = ServerError
                \/ /\ resp'[r].status = Ok
                   /\ Len(resp'[r].body) <= DefaultLimit
                   /\ Len(db.product) <= DefaultLimit
                      => \A q \in Reqs :
                            Acknowledged(q) => Lists(resp'[r].body, q)]_vars

\* A product whose price reads as infinity was created as the 50th document
\* and a later unfiltered GET lists it, under the identifier the POST
\* returned, with the price null.
C1_Witness ==
    \E r, q \in Reqs :
        /\ Acknowledged(q) /\ NonEmptyString(resp[q].body.id)
        /\ model_dump(ProductIn, req[q].body).price = Infinity(1)
        /\ Done(r, "GET /products") /\ req[r].query = NoQuery /\ resp[r].status = Ok
        /\ Len(db.product) = DefaultLimit
        /\ \E i \in DOMAIN resp[r].body :
              /\ resp[r].body[i]["_id"] = resp[q].body.id
              /\ resp[r].body[i].price = Null
              /\ Fields(resp[r].body[i]) = Serialize(model_dump(ProductIn, req[q].body))

----------------------------------------------------------------------------
(* C2 *)

\* C2: a POST /products or POST /lead whose payload fails validation, at the
\* request-body model or at the canonical schema, makes no create_document
\* call and leaves the store as it was.
C2_NoWriteOnInvalid ==
    [][\A r \in Reqs :
          (pc[r] = "pending" /\ pc'[r] = "done" /\ IsPost(r) /\ ~PayloadValid(r))
          => /\ db' = db
             /\ calls' = calls]_vars

\* Both kinds of failure happened against a working store: one payload was
\* refused by the body model, one by the canonical schema; nothing was written.
C2_Witness ==
    /\ env.mode = "working"
    /\ \E r \in Reqs : pc[r] = "done" /\ IsPost(r) /\ ~BodyValid(r)
    /\ \E r \in Reqs : pc[r] = "done" /\ IsPost(r) /\ BodyValid(r) /\ ~SchemaValid(r)
    /\ calls = <<>>

----------------------------------------------------------------------------
(* C3 *)

StoreFailed(r) ==
    \/ env.mode # "working"
    \/ \E i \in CallsOf(r) : ~calls[i].ok

\* C3 as stated: a POST answers 201 when validation and the store write both
\* succeed, 422 whenever validation fails (at the body model or at the
\* canonical schema), and 500 only when the store operation fails.
C3_StatusByOutcome ==
    \A r \in Reqs :
        (pc[r] = "done" /\ IsPost(r))
        => /\ (PayloadValid(r) /\ Wrote(r)) => resp[r].status = Created
           /\ ~PayloadValid(r) => resp[r].status = Unprocessable
           /\ resp[r].status = ServerError => (PayloadValid(r) /\ StoreFailed(r))

----------------------------------------------------------------------------
(* C4 *)

\* C4 as stated: every document GET /products returns has the category
\* supplied (the empty string included) and the featured value supplied;
\* with both supplied, both hold; with neither, all documents match (up
\* to the limit).
C4_FilterFromNonNull ==
    \A r \in Reqs :
        (Done(r, "GET /products") /\ resp[r].status = Ok)
        => LET q == req[r].query
               body == resp[r].body
           IN  /\ q.category.t # "missing"
                  => \A i \in DOMAIN body : body[i].category = q.category
               /\ q.featured.t # "missing"
                  => \A i \in DOMAIN body : body[i].featured = q.featured
               /\ (q.category.t = "missing" /\ q.featured.t = "missing")
                  => Len(body) = Min(Len(db.product), Max(LimitArg(q.limit), 0))

----------------------------------------------------------------------------
(* C5 *)

\* C5 as stated: for every integer limit n, negative ones included, the
\* response holds at most n documents; with limit omitted, at most 50.
C5_AtMostLimit ==
    \A r \in Reqs :
        (Done(r, "GET /products") /\ resp[r].status = Ok)
        => LET l == req[r].query.limit
           IN  /\ l.t = "int" => Len(resp[r].body) <= IntValue(l)
               /\ l.t = "missing" => Len(resp[r].body) <= DefaultLimit

\* C5 amended: for every limit n >= 0 the response holds at most n
\* documents; with limit omitted, at most 50.
C5_AtMostNonNegativeLimit ==
    \A r \in Reqs :
        (Done(r, "GET /products") /\ resp[r].status = Ok)
        => LET l == req[r].query.limit
           IN  /\ (l.t = "int" /\ IntValue(l) >= 0) => Len(resp[r].body) <= IntValue(l)
               /\ l.t = "missing" => Len(resp[r].body) <= DefaultLimit

\* limit=2 against a store of more than two products returned exactly two.
C5_Witness ==
    \E r \in Reqs :
        /\ Done(r, "GET /products") /\ resp[r].status = Ok
        /\ req[r].query = Query(Missing, Missing, Integer(2))
        /\ Len(db.product) > 2
        /\ Len(resp[r].body) = 2

----------------------------------------------------------------------------
(* C6 *)

Indicators ==
    {<<"U+274C", " ", "D", "a", "t", "a", "b", "a", "s", "e", " ", "m", "o",
       "d", "u", "l", "e", " ", "n", "o", "t", " ", "f", "o", "u", "n", "d",
       " ", "(", "r", "u", "n", " ", "e", "n", "a", "b", "l", "e", "-", "d",
       "a", "t", "a", "b", "a", "s", "e", " ", "f", "i", "r", "s", "t", ")">>,
     <<"U+274C", " ", "E", "r", "r", "o", "r", ":", " ">>,
     <<"U+26A0", "U+FE0F", " ", " ", "A", "v", "a", "i", "l", "a", "b", "l",
       "e", " ", "b", "u", "t", " ", "n", "o", "t", " ", "i", "n", "i", "t",
       "i", "a", "l", "i", "z", "e", "d">>,
     <<"U+26A0", "U+FE0F", " ", " ", "C", "o", "n", "n", "e", "c", "t", "e",
       "d", " ", "b", "u", "t", " ", "E", "r", "r", "o", "r", ":", " ">>}

IsPrefix(s, t) == Len(s) <= Len(t) /\ SubSeq(t, 1, Len(s)) = s

\* C6: GET /test answers 200 in every state of the store, and whenever the
\* store is not fully working the database field is an error or warning
\* text, not "Connected & Working".
C6_ProbeNeverFails ==
    \A r \in Reqs :
        Done(r, "GET /test")
        => /\ resp[r].status = Ok
           /\ env.mode # "working"
              => \E p \in Indicators : IsPrefix(p, resp[r].body.database.v)
           /\ env.mode = "working"
              => resp[r].body.database = Text(<<"U+2705", " ", "C", "o",
                      "n", "n", "e", "c", "t", "e", "d", " ", "&", " ", "W",
                      "o", "r", "k", "i", "n", "g">>, <<>>)

\* The listing raised with a long message: the probe answered 200 with the
\* warning text and the message cut to 50 characters.
C6_Witness ==
    \E r \in Reqs :
        /\ Done(r, "GET /test") /\ env.mode = "list_error"
        /\ resp[r].status = Ok
        /\ Len(env.error) > TruncLen
        /\ resp[r].body.database
              = Text(<<"U+26A0", "U+FE0F", " ", " ", "C", "o", "n", "n",
                       "e", "c", "t", "e", "d", " ", "b", "u", "t", " ",
                       "E", "r", "r", "o", "r", ":", " ">>, Take(env.error,
                      TruncLen))
        /\ Len(resp[r].body.database.v)
              = Len(<<"U+26A0", "U+FE0F", " ", " ", "C", "o", "n", "n", "e",
                      "c", "t", "e", "d", " ", "b", "u", "t", " ", "E", "r",
                      "r", "o", "r", ":", " ">>) + TruncLen

----------------------------------------------------------------------------
(* C7 *)

Set == Text(<<"U+2705", " ", "S", "e", "t">>, <<>>)
NotSet == Text(<<"U+274C", " ", "N", "o", "t", " ", "S", "e", "t">>, <<>>)

IsSet(x) == x.t = "str"

\* Neither the connection address nor the name of the database is shown.
NothingRaw(b) ==
    /\ env.url.t = "str" => b.database_url.v # env.url.v
    /\ env.name.t = "str" => b.database_name.v # env.name.v
    /\ env.dbname.t = "str" => b.database_name.v # env.dbname.v

\* C7 as stated: in every GET /test response database_url and database_name
\* are one of the two presence flags, "Set" exactly when the environment
\* variable is set, never the connection address nor the name of the
\* database, and collections holds at most 10 names.
C7_SetWhenPresent ==
    \A r \in Reqs :
        Done(r, "GET /test")
        => LET b == resp[r].body
           IN  /\ b.database_url = (IF IsSet(env.url) THEN Set ELSE NotSet)
               /\ b.database_name = (IF IsSet(env.name) THEN Set ELSE NotSet)
               /\ NothingRaw(b)
               /\ Len(b.collections) <= MaxShown

\* C7 amended: database_url and database_name are "Set" exactly when the
\* environment variable is set to a non-empty value and "Not Set" otherwise
\* (unset, or set to the empty string), never the connection address nor
\* the name of the database, and collections holds at most 10 names.
C7_FlagsOnly ==
    \A r \in Reqs :
        Done(r, "GET /test")
        => LET b == resp[r].body
           IN  /\ b.database_url = (IF IsSet(env.url) /\ env.url.v # <<>> THEN Set ELSE NotSet)
               /\ b.database_name = (IF IsSet(env.name) /\ env.name.v # <<>> THEN Set ELSE NotSet)
               /\ NothingRaw(b)
               /\ Len(b.collections) <= MaxShown

\* Connected path, db.name present, the address set, DATABASE_NAME set to
\* the empty string, more than 10 collections: the response shows "Set",
\* "Not Set" and 10 names.
C7_Witness ==
    \E r \in Reqs :
        /\ Done(r, "GET /test") /\ env.mode = "working"
        /\ env.dbname.t = "str" /\ Truthy(env.url) /\ env.name = Str(<<>>)
        /\ Len(env.collections) > MaxShown
        /\ Len(resp[r].body.collections) = MaxShown
        /\ resp[r].body.database_url = Set
        /\ resp[r].body.database_name = NotSet

----------------------------------------------------------------------------
(* C8 *)

ExpectedSource(body) == IF body.source.t = "missing" THEN Str(<<"w", "e",
        "b", "s", "i", "t", "e">>) ELSE body.source

Thanks == Str(<<"T", "h", "a", "n", "k", "s", " ", "f", "o", "r", " ", "r",
                "e", "a", "c", "h", "i", "n", "g", " ", "o", "u", "t", "!">>)

LeadDocsWithId(id) ==
    {i \in 1..Len(db.lead) : ObjectIdStr(db.lead[i]["_id"]) = id}

\* The handler step of slot r, for a Lead payload with name and email.
NamedLead(r) ==
    /\ Handled(r, "POST /lead")
    /\ req[r].body.name.t = "str" /\ req[r].body.email.t = "str"

\* The step handed create_document, for collection "lead", a record with
\* the source given, and nothing else.
HandsOver(r, source) ==
    /\ Len(calls') = Len(calls) + 1
    /\ calls'[Len(calls')].slot = r
    /\ calls'[Len(calls')].collection = "lead"
    /\ calls'[Len(calls')].record.source = source

\* The step answered 201 with an identifier and the fixed message, and
\* added to the leads, under that identifier, one with the source given.
Persists(r, source) ==
    /\ resp'[r].status = Created
    /\ NonEmptyString(resp'[r].body.id)
    /\ resp'[r].body.message = Thanks
    /\ Len(db'.lead) = Len(db.lead) + 1
    /\ ObjectIdStr(db'.lead[Len(db'.lead)]["_id"]) = resp'[r].body.id
    /\ db'.lead[Len(db'.lead)].source = source

StoredWith(r, source) ==
    /\ Done(r, "POST /lead")
    /\ resp[r].status = Created
    /\ NonEmptyString(resp[r].body.id)
    /\ resp[r].body.message = Thanks
    /\ \E i \in LeadDocsWithId(resp[r].body.id) : db.lead[i].source = source

----------------------------------------------------------------------------
(* C9 *)

CollectionOf(route) == IF route = "POST /lead" THEN "lead" ELSE "product"
Other(collection) == IF collection = "lead" THEN "product" ELSE "lead"

IdsOf(docs) == {ObjectIdStr(docs[i]["_id"]) : i \in 1..Len(docs)}

IssuedIds == {resp[q].body.id : q \in {x \in Reqs : pc[x] = "done" /\ IsPost(x)
                                                     /\ resp[x].status = Created}}

\* The handler step of slot r: answered 201, it made one successful
\* create_document call and added one document, to its route's collection,
\* under an identifier neither stored nor returned before; answered
\* otherwise, it added nothing.
C9_Step(r) ==
    (pc[r] = "pending" /\ pc'[r] = "done")
    => IF resp'[r].status = Created
       THEN LET c == CollectionOf(req[r].route) IN
            /\ IsPost(r)
            /\ Len(calls') = Len(calls) + 1
            /\ calls'[Len(calls')].slot = r
            /\ calls'[Len(calls')].ok
            /\ calls'[Len(calls')].collection = c
            /\ Len(db'[c]) = Len(db[c]) + 1
            /\ SubSeq(db'[c], 1, Len(db[c])) = db[c]
            /\ db'[Other(c)] = db[Other(c)]
            /\ ObjectIdStr(db'[c][Len(db'[c])]["_id"]) = resp'[r].body.id
            /\ resp'[r].body.id \notin IdsOf(AllDocs) \cup IssuedIds
       ELSE /\ db'.product = db.product
            /\ db'.lead = db.lead

\* C9: under every interleaving of the accepted POST requests, each request
\* answered 201 called create_document exactly once, the store grew by
\* exactly one document per 201 (in the collection of its route), and the
\* identifiers returned are pairwise distinct and distinct from every
\* identifier issued before.
C9_OneWritePerCreated ==
    /\ [][\A r \in Reqs : C9_Step(r)]_vars
    /\ [](\A r \in Reqs :
            (pc[r] = "done" /\ IsPost(r) /\ resp[r].status = Created)
            => /\ Cardinality(CallsOf(r)) = 1
               /\ \A q \in Reqs \ {r} :
                     (pc[q] = "done" /\ IsPost(q) /\ resp[q].status = Created)
                     => resp[q].body.id # resp[r].body.id)

\* A product and a lead were both created: two calls, one document more in
\* each collection, two different identifiers.
C9_Witness ==
    \E r, q \in Reqs :
        /\ Done(r, "POST /products") /\ resp[r].status = Created
        /\ Done(q, "POST /lead") /\ resp[q].status = Created
        /\ resp[r].body.id # resp[q].body.id
        /\ Len(calls) = 2
        /\ Len(db.lead) = 1
        /\ Len(db.product) = DefaultLimit

----------------------------------------------------------------------------
(* C10 *)

IsGet(r) == req[r].route \in {"GET /", "GET /schema", "GET /test", "GET /products"}

\* C10: no GET request changes the store (the identifier rewrite of
\* list_products stays in the response), and no request removes or alters
\* a stored document.
C10_WriteOnce ==
    [][/\ \A r \in Reqs : (pc[r] = "pending" /\ pc'[r] = "done" /\ IsGet(r)) => db' = db
       /\ IsPrefix(db.product, db'.product)
       /\ IsPrefix(db.lead, db'.lead)]_vars

\* A created product was listed: the response carries its identifier as a
\* string while the stored document still carries the store's identifier.
C10_Witness ==
    \E r, q \in Reqs :
        /\ Acknowledged(q)
        /\ Done(r, "GET /products") /\ resp[r].status = Ok
        /\ Len(resp[r].body) > 0
        /\ \E i \in DOMAIN resp[r].body :
              /\ resp[r].body[i]["_id"] = resp[q].body.id
              /\ \E j \in 1..Len(db.product) :
                    /\ db.product[j]["_id"] # resp[r].body[i]["_id"]
                    /\ Serialize(RewriteId(Dict(db.product[j], 0)).doc) = resp[r].body[i]

====
